---- MODULE Spec2Model ----
(***************************************************************************)
(* A model of mure's ResponseIterator (src/mure/iterator.py): a pull       *)
(* iterator that drives an asyncio event loop, one run_until_complete per  *)
(* pull, over a window of at most batch_size fetch tasks, and hands the    *)
(* responses back in submission order through a priority queue and one     *)
(* Event per request.                                                      *)
(*                                                                         *)
(* The event loop is modelled as asyncio runs it: a FIFO of ready handles, *)
(* run one generation at a time (the handles present when the iteration    *)
(* starts), with network completions and timers polled at the start of an  *)
(* iteration, and loop.stop() taking effect at the end of the iteration in *)
(* which the stop callback ran.  A coroutine runs without interruption     *)
(* from one suspension point to the next.                                  *)
(***************************************************************************)
EXTENDS Integers, Sequences, FiniteSets, TLC

\* ------------------------------------------------------------------ bounds
MaxRequests == 3
MaxBatch == 3

\* The request values a list is drawn from (a Request is identified, for the
\* cache, by its full field set: two equal keys are two equal requests).
Keys == {"a", "b"}

\* ------------------------------------------------------------------ values
NoEntry == [status |-> -1, reason |-> "none", ok |-> FALSE, text |-> "", url |-> ""]
\* The value a task's exception stands for (no Response is produced).
Raised == [status |-> -2, reason |-> "raised", ok |-> FALSE, text |-> "", url |-> ""]
\* A response stored in the cache before the iterator was built.
Stored(request) ==
    [status |-> 200, reason |-> "OK", ok |-> TRUE, text |-> "stored", url |-> request]

NoItem == [priority |-> -1, response |-> NoEntry]

Min(a, b) == IF a < b THEN a ELSE b

VARIABLES
    \* constructor arguments
    requests, batch_size, cacheGiven, cache,
    \* the cache call that raises in the given backend ("none": a working cache)
    cacheFault,
    \* ResponseIterator fields
    pending, generator, events, queue, tasks,
    \* the lazy task generator of _create_tasks: how many tasks it has yielded
    created,
    \* the fetch tasks
    taskPc, netResult,
    \* the transport session
    session, sessionOpens, sessionCloses,
    \* the event loop
    loop, ready, ntodo, stopping,
    \* the async generator _afetch_responses
    agenPc, agenIdx, item, timerFired,
    \* the consumer
    consumer, pulls, delivered,
    \* history
    computed, fetchCalls, cacheHit, finished,
    \* the cache calls made so far, each with whether self._lock was held
    cacheCalls

config == <<requests, batch_size, cacheGiven, cacheFault>>
iterVars == <<pending, generator, events, queue, tasks, created>>
taskVars == <<taskPc, netResult>>
sessionVars == <<session, sessionOpens, sessionCloses>>
loopVars == <<loop, ready, ntodo, stopping>>
agenVars == <<agenPc, agenIdx, item, timerFired>>
consumerVars == <<consumer, pulls, delivered>>
history == <<computed, fetchCalls, cacheHit, finished, cacheCalls>>
vars == <<config, cache, iterVars, taskVars, sessionVars, loopVars, agenVars,
          consumerVars, history>>

num_requests == Len(requests)
Indices == 0 .. (num_requests - 1)
\* the request at submission index i (0-based, as enumerate gives it)
RequestAt(i) == requests[i + 1]

\* All request lists of at most MaxRequests requests; the first request is
\* "a" (the two keys are interchangeable).
RECURSIVE ListsOfLen(_)
ListsOfLen(n) ==
    IF n = 0 THEN {<<>>}
    ELSE {Append(s, k) : s \in ListsOfLen(n - 1), k \in Keys}
RequestLists ==
    {s \in UNION {ListsOfLen(n) : n \in 0 .. MaxRequests} : Len(s) > 0 => s[1] = "a"}

\* The caches an iterator may be given: any set of keys stored beforehand.
InitialCaches ==
    {[k \in Keys |-> IF k \in S THEN Stored(k) ELSE NoEntry] : S \in SUBSET Keys}

\* The backends an iterator may be given: a working one, or one whose has,
\* get or set raises.
CacheFaults == {"none", "has", "get", "set"}

\* ------------------------------------------------------------ __init__
\* lines 38-51: nothing is started; the pipeline is only built.
\* InitPending taking the last index for the length: C10 fails with it.
InitPending_LastIndex(rs) == Len(rs) - 1
InitPending(rs) == Len(rs)

Init ==
    /\ requests \in RequestLists
    /\ batch_size \in 0 .. MaxBatch
    /\ cacheGiven \in BOOLEAN
    /\ cache \in InitialCaches
    /\ (~cacheGiven => cache = [k \in Keys |-> NoEntry])
    /\ cacheFault \in CacheFaults
    /\ (~cacheGiven => cacheFault = "none")
    /\ pending = InitPending(requests)
    /\ generator = "none"
    /\ events = [i \in Indices |-> FALSE]
    /\ queue = {}
    /\ tasks = {}
    /\ created = 0
    /\ taskPc = [i \in Indices |-> "uncreated"]
    /\ netResult = [i \in Indices |-> "none"]
    /\ session = "none"
    /\ sessionOpens = 0
    /\ sessionCloses = 0
    /\ loop = "stopped"
    /\ ready = <<>>
    /\ ntodo = 0
    /\ stopping = FALSE
    /\ agenPc = "start"
    /\ agenIdx = 0
    /\ item = NoItem
    /\ timerFired = FALSE
    /\ consumer = "idle"
    /\ pulls = 0
    /\ delivered = <<>>
    /\ computed = [i \in Indices |-> NoEntry]
    /\ fetchCalls = [i \in Indices |-> 0]
    /\ cacheHit = [i \in Indices |-> "unknown"]
    /\ finished = <<>>
    /\ cacheCalls = {}

\* ------------------------------------------------------------ handles
Handle(kind, id) == [kind |-> kind, id |-> id]
AnextHandle == Handle("anext", -1)
StopHandle == Handle("stop", -1)
\* StepHandles of tasks created from the last index down: C14 fails with it.
StepHandles_Reversed(from, to) ==
    [k \in 1 .. (to - from) |-> Handle("step", to - k)]
\* loop.create_task schedules the first step of each new task, in creation order
StepHandles(from, to) ==
    [k \in 1 .. (to - from) |-> Handle("step", from + k - 1)]

\* ------------------------------------------------------------ _afetch
\* lines 254-288: the network call ended with `outcome`; any exception is
\* turned into the degraded response.
\* afetch without its except clause, the error escaping into the task: C6 fails
\* with it.
afetch_unhandled(request, outcome) ==
    IF outcome = "ok"
    THEN [status |-> 200, reason |-> "OK", ok |-> TRUE, text |-> request, url |-> request]
    ELSE Raised
afetch(request, outcome) ==
    IF outcome = "ok"
    THEN [status |-> 200, reason |-> "OK", ok |-> TRUE, text |-> request, url |-> request]
    ELSE [status |-> 0, reason |-> "error", ok |-> FALSE, text |-> "", url |-> ""]

\* ------------------------------------------------------------ cache gateway
\* cache_has of a cache that is never consulted: C5 fails with it.
cache_has_never(given, c, request) == FALSE
\* line 152: self.cache and self.cache.has(request)
cache_has(given, c, request) == given /\ c[request] # NoEntry
\* line 155: self.cache.get(request)
cache_get(c, request) == c[request]
\* lines 161-164: the fetched response is stored when a cache is given
cache_set(given, c, request, response) ==
    IF given THEN [c EXCEPT ![request] = response] ELSE c

\* ------------------------------------------------------------ _process_batch
\* lines 184-192: the for loop over the lazy task generator; taking a task
\* from the generator creates it (line 127).
RECURSIVE fill_batch(_, _)
fill_batch(ts, c) ==
    IF c >= num_requests THEN [tasks |-> ts, created |-> c]
    ELSE LET ts2 == ts \cup {c}
         IN  IF Cardinality(ts2) >= batch_size
             THEN [tasks |-> ts2, created |-> c + 1]
             ELSE fill_batch(ts2, c + 1)

\* process_batch without the size test of line 183: C3 fails with it.
process_batch_unguarded(ts, c) == fill_batch(ts, c)
\* lines 175-192
process_batch(ts, c) ==
    IF Cardinality(ts) < batch_size THEN fill_batch(ts, c)
    ELSE [tasks |-> ts, created |-> c]

\* ------------------------------------------------------------ PriorityQueue
\* PopMin with the order reversed: C1 fails with it.
PopMax(q) == CHOOSE e \in q : \A f \in q : e.priority >= f.priority
\* the entry a get returns: the least (priority, response) pair
PopMin(q) == CHOOSE e \in q : \A f \in q : e.priority <= f.priority

\* ------------------------------------------------------------ the event loop
Running == loop = "running"
\* between two iterations of the loop (_run_once), not yet asked to stop
AtPoll == Running /\ ntodo = 0 /\ ~stopping
HeadIs(kind) == Running /\ ntodo > 0 /\ Head(ready).kind = kind

\* _run_once: the handles ready now are the ones this iteration runs
StartIteration ==
    /\ AtPoll
    /\ ready # <<>>
    /\ ntodo' = Len(ready)
    /\ UNCHANGED <<config, cache, iterVars, taskVars, sessionVars, loop, ready,
                   stopping, agenVars, consumerVars, history>>

\* The network call of task i ends (the selector reports it at the start of an
\* iteration): the task is woken with the outcome.
FetchComplete(i, outcome) ==
    /\ AtPoll
    /\ taskPc[i] = "fetching"
    /\ netResult[i] = "none"
    /\ netResult' = [netResult EXCEPT ![i] = outcome]
    /\ ready' = Append(ready, Handle("step", i))
    /\ UNCHANGED <<config, cache, iterVars, taskPc, sessionVars, loop, ntodo,
                   stopping, agenVars, consumerVars, history>>

\* line 237: the 0.25 s sleep after session.close() elapses
TimerFire ==
    /\ AtPoll
    /\ agenPc = "sleep"
    /\ ~timerFired
    /\ timerFired' = TRUE
    /\ ready' = Append(ready, AnextHandle)
    /\ UNCHANGED <<config, cache, iterVars, taskVars, sessionVars, loop, ntodo,
                   stopping, agenPc, agenIdx, item, consumerVars, history>>

\* ------------------------------------------------------------ _aprocess_request
\* What a finishing task schedules: the consumer's wake-up (a getter blocked in
\* queue.get is woken by the put of line 168, a waiter of the event by the set
\* of line 171), and then, when the task object completes, its done callback
\* self._tasks.remove (line 189).
FinishHandles(i) ==
    (IF agenPc = "get" \/ (agenPc = "wait" /\ agenIdx = i)
     THEN <<AnextHandle>> ELSE <<>>)
    \o <<Handle("remove", i)>>

\* line 168: the entry a task puts is keyed by its submission index
\* queue_put with a key that is not the task's index: C12 fails with it.
queue_put_unkeyed(q, priority, response) ==
    q \cup {[priority |-> 0, response |-> response]}
queue_put(q, priority, response) ==
    q \cup {[priority |-> priority, response |-> response]}

\* A cache call and whether it is made inside `async with self._lock`.
CacheCall(op, locked) == [op |-> op, locked |-> locked]

\* The response of the task's step: lines 152-164.  NoEntry stands for the
\* suspension in await self._afetch (no response yet), Raised for an exception
\* of the cache call, which nothing in _aprocess_request catches.
TaskResponse(i) ==
    IF taskPc[i] = "new"
    THEN IF cacheGiven /\ cacheFault = "has" THEN Raised
         ELSE IF cache_has(cacheGiven, cache, RequestAt(i))
         THEN IF cacheFault = "get" THEN Raised
              ELSE cache_get(cache, RequestAt(i))
         ELSE NoEntry
    ELSE LET response == afetch(RequestAt(i), netResult[i])
         IN  IF response # Raised /\ cacheGiven /\ cacheFault = "set"
             THEN Raised
             ELSE response

\* The cache calls of the task's step: has on line 152, outside the lock; get
\* on line 155 and set on line 164, inside it.
CacheCallsOf(i) ==
    IF ~cacheGiven THEN {}
    ELSE IF taskPc[i] = "new"
    THEN {CacheCall("has", FALSE)}
         \cup (IF cacheFault # "has" /\ cache_has(cacheGiven, cache, RequestAt(i))
               THEN {CacheCall("get", TRUE)} ELSE {})
    ELSE IF afetch(RequestAt(i), netResult[i]) # Raised
    THEN {CacheCall("set", TRUE)}
    ELSE {}

\* One step of task i: from its start to the await of the fetch (lines
\* 149-158), or from the start or the end of the fetch to its end (lines
\* 152-173).  The lock of lines 154 and 163 is never held across an await, so
\* its acquire never suspends.
TaskStep ==
    /\ HeadIs("step")
    /\ LET i == Head(ready).id
           hit == /\ taskPc[i] = "new"
                  /\ cacheFault # "has"
                  /\ cache_has(cacheGiven, cache, RequestAt(i))
           r == TaskResponse(i)
       IN  /\ taskPc[i] \in {"new", "fetching"}
           /\ cacheCalls' = cacheCalls \cup CacheCallsOf(i)
           /\ IF r = Raised
              THEN \* an exception ends the task: nothing is put, the event stays unset
                   /\ taskPc' = [taskPc EXCEPT ![i] = "failed"]
                   /\ ready' = Tail(ready) \o <<Handle("remove", i)>>
                   /\ UNCHANGED <<cache, queue, events, computed, fetchCalls, cacheHit,
                                  finished>>
              ELSE IF taskPc[i] = "new" /\ ~hit
              THEN \* line 158: session.request is issued, the task suspends
                   /\ taskPc' = [taskPc EXCEPT ![i] = "fetching"]
                   /\ fetchCalls' = [fetchCalls EXCEPT ![i] = @ + 1]
                   /\ cacheHit' = [cacheHit EXCEPT ![i] = "miss"]
                   /\ ready' = Tail(ready)
                   /\ UNCHANGED <<cache, queue, events, computed, finished>>
              ELSE /\ cache' = IF hit THEN cache
                               ELSE cache_set(cacheGiven, cache, RequestAt(i), r)
                   /\ queue' = queue_put(queue, i, r)
                   /\ events' = [events EXCEPT ![i] = TRUE]
                   /\ taskPc' = [taskPc EXCEPT ![i] = "done"]
                   /\ computed' = [computed EXCEPT ![i] = r]
                   /\ finished' = Append(finished, i)
                   /\ cacheHit' = IF hit THEN [cacheHit EXCEPT ![i] = "hit"] ELSE cacheHit
                   /\ ready' = Tail(ready) \o FinishHandles(i)
                   /\ UNCHANGED fetchCalls
    /\ agenPc' = IF agenPc = "get" /\ events' # events THEN "get_woken" ELSE agenPc
    /\ ntodo' = ntodo - 1
    /\ UNCHANGED <<config, pending, generator, tasks, created, netResult,
                   sessionVars, loop, stopping, agenIdx, item, timerFired,
                   consumerVars>>

\* line 189: the done callback of a finished task
RemoveTask ==
    /\ HeadIs("remove")
    /\ tasks' = tasks \ {Head(ready).id}
    /\ ready' = Tail(ready)
    /\ ntodo' = ntodo - 1
    /\ UNCHANGED <<config, cache, pending, generator, events, queue, created,
                   taskVars, sessionVars, loop, stopping, agenVars, consumerVars,
                   history>>

\* ------------------------------------------------------------ _afetch_responses
\* What one step of the async generator leaves behind.
AgenState(pc, idx, ts, c, q, it, closes) ==
    [pc |-> pc, idx |-> idx, tasks |-> ts, created |-> c, queue |-> q,
     item |-> it, closes |-> closes]

\* lines 220-225: the entry is taken from the queue, the window is refilled
\* and the response is yielded
AfterGet(i, ts, c, q) ==
    LET e == PopMin(q)
        b == process_batch(ts, c)
    IN  AgenState("yield", i, b.tasks, b.created, q \ {e}, e, 0)

\* lines 216-225: event i is set; the window is refilled, then queue.get,
\* which suspends only on an empty queue
AfterWait(i, ts, c, q) ==
    LET b == process_batch(ts, c)
    IN  IF q = {}
        THEN AgenState("get", i, b.tasks, b.created, q, NoItem, 0)
        ELSE AfterGet(i, b.tasks, b.created, q)

\* Finally without session.close(): C7 fails with it.
Finally_NoClose(i, ts, c, q) == AgenState("sleep", i, ts, c, q, NoItem, 0)
\* lines 230-237: the finally block closes the session and sleeps
Finally(i, ts, c, q) == AgenState("sleep", i, ts, c, q, NoItem, 1)

\* LoopHead without the wait on the event of line 214: C13 fails with it.
LoopHead_NoWait(i, ts, c, q) ==
    IF i >= num_requests THEN Finally(i, ts, c, q)
    ELSE AfterWait(i, ts, c, q)
\* lines 212-214: the head of the for loop at index i; event.wait() returns at
\* once when the event is already set
LoopHead(i, ts, c, q) ==
    IF i >= num_requests THEN Finally(i, ts, c, q)
    ELSE IF events[i] THEN AfterWait(i, ts, c, q)
    ELSE AgenState("wait", i, ts, c, q, NoItem, 0)

\* FirstBatch without line 210, the first tasks left to the first refill: C9
\* fails with it.
FirstBatch_Missing == [tasks |-> tasks, created |-> created]
\* lines 204-210: the session is created and the first batch of tasks started
FirstBatch == process_batch(tasks, created)

\* The step the generator takes when its anext task is run or woken.
AgenStep ==
    CASE agenPc = "start" -> LoopHead(0, FirstBatch.tasks, FirstBatch.created, queue)
      [] agenPc = "yield" -> LoopHead(agenIdx + 1, tasks, created, queue)
      [] agenPc = "wait" -> AfterWait(agenIdx, tasks, created, queue)
      [] agenPc = "get_woken" -> AfterGet(agenIdx, tasks, created, queue)
      [] OTHER -> AgenState("done", agenIdx, tasks, created, queue, NoItem, 0)

\* lines 226-227: run when the generator is resumed after its yield
PendingAfterResume(p) == p - 1

\* The anext task of the current pull runs: the generator's first step, its
\* resumption after a yield, or its wake-up from event.wait(), queue.get() or
\* the sleep.  The anext task ends when the generator yields or finishes; its
\* done callback (run_until_complete's) is then scheduled.
AnextStep ==
    /\ HeadIs("anext")
    /\ agenPc \in {"start", "yield", "wait", "get_woken", "sleep"}
    /\ LET st == AgenStep
       IN  /\ agenPc' = st.pc
           /\ agenIdx' = st.idx
           /\ item' = st.item
           /\ tasks' = st.tasks
           /\ created' = st.created
           /\ queue' = st.queue
           /\ taskPc' = [i \in Indices |->
                            IF created <= i /\ i < st.created THEN "new" ELSE taskPc[i]]
           /\ pending' = IF agenPc = "yield" THEN PendingAfterResume(pending) ELSE pending
           /\ session' = IF st.closes > 0 THEN "closed"
                         ELSE IF agenPc = "start" THEN "open" ELSE session
           /\ sessionOpens' = IF agenPc = "start" THEN sessionOpens + 1 ELSE sessionOpens
           /\ sessionCloses' = sessionCloses + st.closes
           /\ ready' = Tail(ready) \o StepHandles(created, st.created)
                         \o (IF st.pc \in {"yield", "done"} THEN <<StopHandle>> ELSE <<>>)
    /\ ntodo' = ntodo - 1
    /\ UNCHANGED <<config, cache, generator, events, netResult, loop, stopping,
                   timerFired, consumerVars, history>>

\* run_until_complete's done callback: loop.stop()
StopLoop ==
    /\ HeadIs("stop")
    /\ stopping' = TRUE
    /\ ready' = Tail(ready)
    /\ ntodo' = ntodo - 1
    /\ UNCHANGED <<config, cache, iterVars, taskVars, sessionVars, loop, agenVars,
                   consumerVars, history>>

\* ------------------------------------------------------------ __next__
\* lines 91, 102, 107: the consumer pulls; the first pull makes the async
\* generator; each pull wraps anext in a task and runs the loop until it ends.
Pull ==
    /\ consumer = "idle"
    /\ consumer' = "pulling"
    /\ pulls' = pulls + 1
    /\ generator' = IF agenPc = "start" THEN "set" ELSE generator
    /\ loop' = "running"
    /\ ready' = Append(ready, AnextHandle)
    /\ UNCHANGED <<config, cache, pending, events, queue, tasks, created, taskVars,
                   sessionVars, ntodo, stopping, agenVars, delivered, history>>

\* lines 107-110: the loop stops at the end of the iteration in which the stop
\* callback ran; the pull returns the yielded response, or reports exhaustion.
ReturnFromPull ==
    /\ Running
    /\ ntodo = 0
    /\ stopping
    /\ loop' = "stopped"
    /\ stopping' = FALSE
    /\ IF agenPc = "yield"
       THEN /\ delivered' = Append(delivered, item)
            /\ consumer' = "idle"
            /\ UNCHANGED generator
       ELSE /\ generator' = "none"
            /\ consumer' = "exhausted"
            /\ UNCHANGED delivered
    /\ UNCHANGED <<config, cache, pending, events, queue, tasks, created, taskVars,
                   sessionVars, ready, ntodo, agenVars, pulls, history>>

\* The consumer stops pulling before exhaustion and keeps or drops the iterator.
Abandon ==
    /\ consumer = "idle"
    /\ agenPc = "yield"
    /\ consumer' = "abandoned"
    /\ UNCHANGED <<config, cache, iterVars, taskVars, sessionVars, loopVars,
                   agenVars, pulls, delivered, history>>

\* lines 45, 127: the loop is asyncio.get_event_loop(), which outlives the
\* iterator; it holds every unfinished task (a ready handle or an I/O
\* callback), and the task holds the iterator through its coroutine's self.
\* An iterator is garbage only when none of its tasks is unfinished.
\* Collectable of an iterator that owns its loop and its tasks: C19 fails with it.
Collectable_Always == TRUE
Collectable == \A i \in Indices : taskPc[i] \notin {"new", "fetching"}

\* lines 228-237: an abandoned iterator is garbage collected.  The generator
\* is closed at its yield: GeneratorExit is caught, and the finally block
\* closes the session; no loop is running for the sleep that follows.
Finalize ==
    /\ consumer = "abandoned"
    /\ agenPc = "yield"
    /\ Collectable
    /\ consumer' = "finalized"
    /\ agenPc' = "closed"
    /\ session' = "closed"
    /\ sessionCloses' = sessionCloses + 1
    /\ UNCHANGED <<config, cache, iterVars, taskVars, sessionOpens, loopVars,
                   agenIdx, item, timerFired, pulls, delivered, history>>

\* ------------------------------------------------------------ specification
LoopStep == StartIteration \/ TimerFire \/ TaskStep \/ RemoveTask \/ AnextStep
              \/ StopLoop \/ ReturnFromPull
              \/ \E i \in Indices, o \in {"ok", "error"} : FetchComplete(i, o)

Next == Pull \/ LoopStep \/ Abandon \/ Finalize

Spec == Init /\ [][Next]_vars

\* The loop runs whatever is ready, every network call ends, and a consumer
\* that has not abandoned the iterator pulls again.
FairSpec == Spec /\ WF_vars(LoopStep) /\ WF_vars(Pull)

\* ------------------------------------------------------------ properties
\* the tasks that were created and have not finished
InFlight == {i \in Indices : taskPc[i] \in {"new", "fetching"}}
\* the consumer has control (no pull is in progress)
WithConsumer == consumer \in {"idle", "exhausted", "abandoned", "finalized"}

\* C1: the k-th response returned to the consumer is the response computed by
\* the task of submission index k-1, whatever the order in which the tasks
\* completed; so no response of index i+1 is returned before that of index i.
C1_SubmissionOrder ==
    \A k \in 1 .. Len(delivered) :
        /\ delivered[k].priority = k - 1
        /\ computed[k - 1] # NoEntry
        /\ delivered[k].response = computed[k - 1]

\* Three responses were returned although the tasks completed in the reverse
\* order.
C1_Witness ==
    /\ Len(delivered) = 3
    /\ finished = <<2, 1, 0>>

\* C2: with 1 <= batch_size <= N, the consumer never waits on completion
\* signal i while task i has not been created (tasks are created only by the
\* consumer's own refills, so such a wait never ends).
C2_NeverWaitsOnUncreatedTask ==
    (1 <= batch_size /\ batch_size <= num_requests)
        => (agenPc = "wait" => agenIdx < created)

\* C3: with batch_size >= 1, at most batch_size tasks are created and not yet
\* finished, and the tracked active set holds at most batch_size tasks.
C3_WindowBound ==
    batch_size >= 1 =>
        /\ Cardinality(InFlight) <= batch_size
        /\ Cardinality(tasks) <= batch_size
        /\ InFlight \subseteq tasks

\* The window is full of running fetches while a request still waits for a slot.
C3_Witness ==
    /\ batch_size = 2
    /\ created < num_requests
    /\ Cardinality(tasks) = 2
    /\ \A i \in tasks : taskPc[i] = "fetching"

\* C4: whenever control is back with the consumer after k responses were
\* returned to it, the pending count is N - k.
C4_PendingIsUnreturned ==
    WithConsumer => pending = num_requests - Len(delivered)

\* C5: a task that finds its request in the cache when it runs never invokes
\* the fetch and pushes the cached value, which is the response returned at
\* its position; when iteration has ended, the fetch was invoked exactly once
\* for each index that was not a cache hit and never for one that was.
C5_HitStep(i) ==
    (/\ taskPc[i] = "new"
     /\ taskPc'[i] # "new"
     /\ cacheGiven
     /\ cacheFault \notin {"has", "get"}
     /\ cache[RequestAt(i)] # NoEntry)
        => /\ taskPc'[i] = "done"
           /\ fetchCalls'[i] = 0
           /\ cacheHit'[i] = "hit"
           /\ computed'[i] = cache[RequestAt(i)]
           /\ [priority |-> i, response |-> cache[RequestAt(i)]] \in queue'

C5_MissStep(i) ==
    (/\ taskPc[i] = "new"
     /\ taskPc'[i] # "new"
     /\ cacheFault # "has"
     /\ ~(cacheGiven /\ cache[RequestAt(i)] # NoEntry))
        => /\ fetchCalls'[i] = 1
           /\ cacheHit'[i] = "miss"

C5_Totals ==
    /\ \A i \in Indices :
          /\ cacheHit[i] = "hit" => fetchCalls[i] = 0
          /\ fetchCalls[i] <= 1
          /\ taskPc[i] \in {"fetching", "done"} =>
                fetchCalls[i] = (IF cacheHit[i] = "hit" THEN 0 ELSE 1)
    /\ \A k \in 1 .. Len(delivered) :
          cacheHit[k - 1] = "hit" =>
              /\ delivered[k].response = computed[k - 1]
              /\ fetchCalls[k - 1] = 0

\* C5: in every step a cache hit skips the fetch and pushes the cached value,
\* a miss invokes the fetch once, and the totals above always hold (a hit and
\* a miss are answers of a cache whose has and get do not raise).
C5_CacheHitSkipsFetch ==
    /\ [][\A i \in Indices : C5_HitStep(i) /\ C5_MissStep(i)]_vars
    /\ []C5_Totals

\* The cache held the third of three requests: iteration ended with two
\* fetches, and the third response is the stored one.
C5_Witness ==
    /\ consumer = "exhausted"
    /\ requests = <<"a", "a", "b">>
    /\ cacheHit[2] = "hit"
    /\ fetchCalls[0] = 1 /\ fetchCalls[1] = 1 /\ fetchCalls[2] = 0
    /\ delivered[3].response = Stored("b")

\* C6: a fetch that fails at index i yields the degraded response (status 0,
\* ok false, empty text and url) at position i; its task still completes and
\* sets its signal; the other indices get their own responses at their
\* positions; no task ends with an error of the fetch (only a raising cache
\* call ends a task with an error).
C6_FailedFetchIsDegraded ==
    /\ \A i \in Indices :
          /\ taskPc[i] = "failed" => cacheFault # "none"
          /\ (netResult[i] = "error" /\ taskPc[i] # "fetching" /\ cacheFault # "set") =>
                /\ taskPc[i] = "done"
                /\ events[i]
                /\ computed[i].status = 0
                /\ ~computed[i].ok
    /\ \A k \in 1 .. Len(delivered) :
          /\ delivered[k].priority = k - 1
          /\ netResult[k - 1] = "error" =>
                /\ delivered[k].response.status = 0
                /\ ~delivered[k].response.ok
                /\ delivered[k].response.text = ""
                /\ delivered[k].response.url = ""
          /\ netResult[k - 1] = "ok" =>
                /\ delivered[k].response.status = 200
                /\ delivered[k].response.ok
                /\ delivered[k].response.url = RequestAt(k - 1)

\* Of three requests the second failed, and iteration ended after three
\* responses.
C6_Witness ==
    /\ consumer = "exhausted"
    /\ Len(delivered) = 3
    /\ netResult[0] = "ok" /\ netResult[1] = "error" /\ netResult[2] = "ok"
    /\ delivered[2].response.status = 0

\* C7: the session is created at most once and closed at most once, never
\* closed before it was created; when the pull reports exhaustion it has been
\* closed exactly once and pending is 0; and while the consumer is still
\* pulling it is closed only after all N responses were returned.
C7_SessionLifecycle ==
    /\ sessionOpens <= 1
    /\ sessionCloses <= sessionOpens
    /\ (session = "closed") = (sessionCloses = 1)
    /\ (session = "none") = (sessionOpens = 0)
    /\ consumer = "exhausted" =>
          /\ sessionOpens = 1
          /\ sessionCloses = 1
          /\ pending = 0
    /\ (sessionCloses > 0 /\ consumer \in {"idle", "pulling", "exhausted"}) =>
          Len(delivered) = num_requests

\* Iteration over three requests ended with the session closed.
C7_Witness ==
    /\ consumer = "exhausted"
    /\ num_requests = 3
    /\ Len(delivered) = 3
    /\ session = "closed"

\* C8: once the consumer has stopped pulling while responses remain to be
\* returned, the session that was opened is eventually closed without any
\* further pull.
C8_AbandonedSessionIsClosed ==
    (consumer = "abandoned" /\ Len(delivered) < num_requests /\ sessionOpens = 1)
        ~> (session = "closed")

\* C9: before the first pull there is no session, no task and no fetch; the
\* first step of the first pull creates the session and the first
\* min(batch_size, N) tasks, scheduled in index order.
C9_BeforeFirstPull ==
    pulls = 0 =>
        /\ session = "none"
        /\ sessionOpens = 0
        /\ generator = "none"
        /\ created = 0
        /\ tasks = {}
        /\ ready = <<>>
        /\ \A i \in Indices : taskPc[i] = "uncreated" /\ fetchCalls[i] = 0

C9_FirstStep ==
    (agenPc = "start" /\ agenPc' # "start") =>
        /\ pulls = 1
        /\ sessionOpens' = 1
        /\ created' = Min(batch_size, num_requests)
        /\ tasks' = 0 .. (created' - 1)
        /\ \A i \in Indices : taskPc'[i] = (IF i < created' THEN "new" ELSE "uncreated")
        /\ \A k \in 1 .. created' : ready'[k] = Handle("step", k - 1)

\* C9: nothing exists before the first pull, and the first step of the first
\* pull creates the session and the first min(batch_size, N) tasks in order.
C9_LazyStart ==
    /\ []C9_BeforeFirstPull
    /\ [][C9_FirstStep]_vars

\* The first step of the first pull has just run with batch_size 2 and three
\* requests: two tasks are created and scheduled, the third is not.
C9_Witness ==
    /\ pulls = 1
    /\ batch_size = 2
    /\ num_requests = 3
    /\ agenPc = "wait"
    /\ session = "open"
    /\ taskPc[0] = "new" /\ taskPc[1] = "new" /\ taskPc[2] = "uncreated"

\* C10: over zero requests the pending count is 0 from construction on, no
\* task is created, nothing is returned, and the first pull reports exhaustion.
C10_EmptyList ==
    num_requests = 0 =>
        /\ pending = 0
        /\ created = 0
        /\ tasks = {}
        /\ delivered = <<>>
        /\ pulls <= 1
        /\ (pulls = 1 /\ WithConsumer) => consumer = "exhausted"

\* The first pull over zero requests has reported exhaustion.
C10_Witness ==
    /\ num_requests = 0
    /\ pulls = 1
    /\ consumer = "exhausted"

\* ------------------------------------------------------------ C11
\* C11: an iterator whose batch_size is not positive is rejected when it is
\* constructed, so no such iterator is ever pulled.
C11_NonPositiveBoundRejected == batch_size <= 0 => pulls = 0

\* ------------------------------------------------------------ C12
\* the pair of index i was pushed: it is in the queue, or the consumer popped it
C12_Pushed(i) ==
    \/ \E e \in queue : e.priority = i
    \/ item.priority = i
    \/ \E k \in 1 .. Len(delivered) : delivered[k].priority = i

\* C12: a signal that is set has its pair (i, response) already pushed (still
\* in the queue or popped by the consumer); a signal is set by exactly one
\* step, the end of its task, and once set it is never reset.
C12_SignalAfterPush ==
    /\ [](\A i \in Indices :
            /\ events[i] => C12_Pushed(i)
            /\ events[i] <=> \E a \in 1 .. Len(finished) : finished[a] = i)
    /\ [](\A a, b \in 1 .. Len(finished) : finished[a] = finished[b] => a = b)
    /\ [][\A i \in Indices : events[i] => events'[i]]_vars

\* Signals 0 and 1 are set: the consumer holds the pair of index 0 and the
\* pair of index 1 is in the queue.
C12_Witness ==
    /\ num_requests >= 2
    /\ events[0] /\ events[1]
    /\ agenPc = "yield" /\ item.priority = 0
    /\ \E e \in queue : e.priority = 1

\* ------------------------------------------------------------ C13
\* a step in which the consumer pops an entry (line 220)
C13_PopStep ==
    (queue' # queue /\ queue' \subseteq queue) =>
        LET i == agenIdx'
        IN  /\ events[i]
            /\ queue # {}
            /\ \A e \in queue : e.priority >= i
            /\ item' \in queue
            /\ item'.priority = i
            /\ queue' = queue \ {item'}
            /\ agenPc' = "yield"

\* C13: whenever the consumer pops after waiting on signal i, the queue is not
\* empty, holds no entry of an index below i, and its least entry is the one
\* of index i, which the pop returns; the pop never suspends.
C13_PopReturnsAwaitedIndex ==
    /\ [][C13_PopStep]_vars
    /\ [](agenPc \notin {"get", "get_woken"})

\* The consumer has just popped the entry of index 1 while the entry of index
\* 2, finished earlier, stays in the queue.
C13_Witness ==
    /\ num_requests = 3
    /\ consumer = "pulling" /\ agenPc = "yield"
    /\ item.priority = 1
    /\ \E e \in queue : e.priority = 2
    /\ finished = <<0, 2, 1>>

\* ------------------------------------------------------------ C14
\* the positions in the ready queue of the first step of a task not yet started
C14_StartOf(i) == {a \in 1 .. Len(ready) : ready[a] = Handle("step", i)}

C14_Prefix ==
    /\ created \in 0 .. num_requests
    /\ \A i \in Indices : taskPc[i] # "uncreated" <=> i < created
    /\ tasks \subseteq 0 .. (created - 1)
    /\ \A i \in Indices : taskPc[i] = "new" => Cardinality(C14_StartOf(i)) = 1
    /\ \A i, j \in Indices :
          (taskPc[i] = "new" /\ taskPc[j] = "new" /\ i < j) =>
              \A a \in C14_StartOf(i), b \in C14_StartOf(j) : a < b

C14_CreateStep ==
    /\ created' >= created
    /\ \A i \in Indices :
          /\ taskPc[i] # "uncreated" => taskPc'[i] # "uncreated"
          /\ (taskPc[i] # "new" /\ taskPc'[i] = "new") =>
                /\ taskPc[i] = "uncreated"
                /\ \A j \in 0 .. (i - 1) : taskPc'[j] # "uncreated"

\* C14: tasks are created in strictly increasing index order: the created
\* indices are always a prefix 0..created-1 of the list, task i is created
\* only when every smaller index has been, each index gets one task, created
\* once, and the tasks of one refill are scheduled in index order; a refill
\* that stopped at the bound is resumed at the next index.
C14_CreatedInIndexOrder ==
    /\ []C14_Prefix
    /\ [][C14_CreateStep]_vars

\* With a bound of 2, the third task was created by a later refill, after the
\* first response was returned.
C14_Witness ==
    /\ num_requests = 3 /\ batch_size = 2
    /\ Len(delivered) >= 1
    /\ created = 3
    /\ taskPc[2] = "new"

\* ------------------------------------------------------------ C15
\* C15: a slot freed by a finished task is refilled while the consumer still
\* waits on the signal of an earlier, slower index: whenever the loop has
\* nothing left to run but the network, with the awaited task still fetching,
\* no task ended by an error and requests not yet started, the window is full.
C15_FreedSlotIsRefilled ==
    (/\ AtPoll
     /\ ready = <<>>
     /\ agenPc = "wait"
     /\ taskPc[agenIdx] = "fetching"
     /\ \A j \in Indices : taskPc[j] # "failed"
     /\ created < num_requests)
        => Cardinality(tasks) >= batch_size

\* ------------------------------------------------------------ C16
\* the generator's next step starts with a refill, which tests
\* len(self._tasks) < batch_size on the active set as it is now
C16_AtRefill ==
    /\ HeadIs("anext")
    /\ \/ agenPc \in {"start", "wait", "get_woken"}
       \/ agenPc = "yield" /\ agenIdx + 1 < num_requests /\ events[agenIdx + 1]

\* C16: wherever a refill tests the size of the active set, the set holds
\* exactly the created tasks that have not finished: a task that has pushed
\* its result and set its signal does not occupy a slot.
C16_RefillSeesUnfinishedOnly == C16_AtRefill => tasks = InFlight

\* ------------------------------------------------------------ C17
\* C17: every cache call of a task (has, get and set) is made while the task
\* holds the iterator's lock.
C17_CacheCallsUnderLock == \A call \in cacheCalls : call.locked

\* ------------------------------------------------------------ C18
\* C18: on a miss the fetched response is stored only if the fetch succeeded:
\* the cache never holds a degraded response (status 0).
C18_DegradedNeverCached == \A k \in Keys : cache[k].status # 0

C20_Blocked == AtPoll /\ ready = <<>> /\ InFlight = {}

\* C20: when a cache call raised in the task of index i, the pull for index i
\* ends (with the error): it is never left blocked on signal i.
C20_CacheFailureEndsPull ==
    (/\ consumer = "pulling"
     /\ agenPc = "wait"
     /\ taskPc[agenIdx] = "failed")
        => ~C20_Blocked
====
